---- MODULE Spec2Model ----
(***************************************************************************)
(* The asynchronous order pipeline of orderflow: OrderProcessor            *)
(* (app/services/order_processor.py), its asyncio.Queue, its worker tasks, *)
(* the processed_orders table, and a producer that calls enqueue().        *)
(*                                                                         *)
(* Every action is one run of a coroutine between two suspension points:   *)
(* asyncio runs a task without interruption until it awaits something      *)
(* that is not ready, so the steps below start where an await resumes and  *)
(* end at the next await that suspends.  A database read or commit takes   *)
(* effect in the step that resumes from it.                                *)
(***************************************************************************)
EXTENDS Integers, Sequences, FiniteSets, TLC

\* ---------------------------------------------------------------- bounds
Concurrency == 2        \* OrderProcessor(concurrency=...)
MaxRetries == 2         \* OrderProcessor(max_retries=...)
NumOrderIds == 2        \* order ids 1..NumOrderIds are submitted
MaxJobs == 2            \* jobs put on the queue by enqueue() over a run
MaxEnrichFail == 3      \* get_many failures the provider produces over a run
MaxStoreFail == 1       \* store outages over a run (specification SpecF only)
MaxSkus == 3            \* product codes in one get_many call, repeats included
MaxHttpRetries == 2     \* AsyncHTTP(retries=...) ranges over 0..MaxHttpRetries
MaxPayloads == 3        \* payloads pushed to the Redis list over a run
MaxPopErrors == 2       \* connection errors of blpop over a run
MaxEnqueueFail == 1     \* enqueue() calls of the consumer that raise over a run
MaxItems == 2           \* line items of an order that is priced

OrderIds == 1..NumOrderIds
Workers == 1..Concurrency

VARIABLES
    queue,       \* asyncio.Queue items, head first: QueueJob records
    unfinished,  \* asyncio.Queue._unfinished_tasks
    shutdown,    \* _shutdown_event
    wpc,         \* per worker task: where its coroutine is suspended
    wjob,        \* per worker task: the QueueJob it holds
    wexisting,   \* per worker task: what the select of _persist_processed returned
    wcancel,     \* per worker task: task.cancel() was requested and not yet delivered
    store,       \* the rows of table processed_orders, in insertion order
    cpc,         \* the lifecycle caller (start / stop / wait_for_all)
    cret,        \* which lifecycle call returned in the last step
    ppc,         \* the producer: inside enqueue() or not
    porder,      \* the order id of the enqueue() in progress
    pexists,     \* what _is_already_processed returned to that enqueue()
    jinfo,       \* history: per job put by enqueue(), what happened to it
    writes,      \* history: commits of _persist_processed per order id
    efails,      \* get_many failures so far
    sfails,      \* store outages so far
    atStop,      \* history: the jobs queued when stop() was last called
    stopIdle,    \* history: no job was in flight when stop() was last called
    atWait,      \* history: the jobs put before wait_for_all() was last called
    getmany,     \* one FakeStoreProductProvider.get_many call: see GetManyIdle
    request,     \* one AsyncHTTP.request call: see RequestIdle
    consumer,    \* RedisOrderConsumer and the Redis list: see ConsumerInit
    pricing,     \* one _process_order computation: see PricingIdle
    hashing      \* the last two content hashes computed: see NoHash

\* The pipeline, with get_many as a call that returns or raises.
pipevars == <<queue, unfinished, shutdown, wpc, wjob, wexisting, wcancel, store,
              cpc, cret, ppc, porder, pexists, jinfo, writes, efails, sfails,
              atStop, stopIdle, atWait>>

\* The product provider and its HTTP client, taken on their own.
netvars == <<getmany, request, consumer, pricing, hashing>>

vars == <<pipevars, netvars>>

NoJob == [oid |-> 0, attempt |-> 0, jid |-> 0]

\* QueueJob(payload=payload): attempt defaults to 0.
QueueJob(o, j) == [oid |-> o, attempt |-> 0, jid |-> j]

InFlight == {"dedup", "fetch", "select", "commit"}
Alive(w) == wpc[w] \notin {"none", "done"}

\* ------------------------------------------------------------- the store
RowsOf(o) == {i \in 1..Len(store) : store[i].order_id = o}

\* A check that finds no row.
IsAlreadyProcessedNever(o) == FALSE

\* select(ProcessedOrder.order_id).where(order_id == o) is not None
IsAlreadyProcessed(o) == RowsOf(o) # {}

\* A table without the unique index on order_id.
UniqueViolationNever(o) == FALSE

\* order_id is declared unique: an INSERT of an order id that has a row fails.
UniqueViolation(o) == RowsOf(o) # {}

\* session.add(ProcessedOrder(...)); created_at is the server default.
InsertRow(o, j) == Append(store, [order_id |-> o, created |-> j, content |-> j])

\* An UPDATE that stamps created_at anew.
UpdateRowsStampsCreated(o, j) ==
    [i \in 1..Len(store) |->
        IF store[i].order_id = o
        THEN [store[i] EXCEPT !.content = j, !.created = j]
        ELSE store[i]]

\* existing.customer = ... ; every column but id, order_id and created_at.
UpdateRows(o, j) ==
    [i \in 1..Len(store) |->
        IF store[i].order_id = o THEN [store[i] EXCEPT !.content = j]
        ELSE store[i]]

\* ------------------------------------------------------------ the queue
\* A task_done() that wakes join() while one task is still unfinished.
TaskDoneWakesEarly(n) ==
    /\ unfinished' = n
    /\ cpc' = IF n <= 1 /\ cpc = "stop_join" THEN "stop_wake"
              ELSE IF n <= 1 /\ cpc = "wait_join" THEN "wait_wake"
              ELSE cpc

\* Queue.task_done(): the counter drops; at 0 the _finished event is set,
\* which wakes whoever waits in Queue.join() at that moment.
TaskDone(n) ==
    /\ unfinished' = n
    /\ cpc' = IF n = 0 /\ cpc = "stop_join" THEN "stop_wake"
              ELSE IF n = 0 /\ cpc = "wait_join" THEN "wait_wake"
              ELSE cpc

\* A put that goes to the head.
PutAtHead(q, job) == <<job>> \o q

\* Queue.put_nowait: the item goes to the tail.
Put(q, job) == Append(q, job)

\* A retry policy that never re-queues.
DispositionNeverRetries(job) ==
    IF shutdown THEN "shutdown" ELSE "exhausted"

\* A retry policy that gives up one attempt early.
DispositionOneShort(job) ==
    IF shutdown THEN "shutdown"
    ELSE IF job.attempt + 1 < MaxRetries THEN "retry"
    ELSE "exhausted"

\* A retry policy that does not look at the shutdown flag.
DispositionIgnoresShutdown(job) ==
    IF job.attempt < MaxRetries THEN "retry" ELSE "exhausted"

\* _handle_failure: what becomes of a job whose attempt failed.
Disposition(job) ==
    IF shutdown THEN "shutdown"
    ELSE IF job.attempt < MaxRetries THEN "retry"
    ELSE "exhausted"

\* A re-queue that leaves the counter.
RequeuedSameAttempt(job) == job

\* job.attempt += 1; await self._queue.put(job)
Requeued(job) == [job EXCEPT !.attempt = @ + 1]

WorkerTo(w, pc) ==
    /\ wpc' = [wpc EXCEPT ![w] = pc]
    /\ wjob' = [wjob EXCEPT ![w] = NoJob]
    /\ wexisting' = [wexisting EXCEPT ![w] = FALSE]

\* except ...: await self._handle_failure(job, exc); finally: task_done().
\* The put of a retry comes before task_done, both in this one step.
HandleFailure(w, info) ==
    LET job == wjob[w]
        d == Disposition(job)
    IN  /\ queue' = IF d = "retry" THEN Put(queue, Requeued(job)) ELSE queue
        /\ jinfo' = IF d = "retry" THEN info
                    ELSE [info EXCEPT ![job.jid].fate = d]
        /\ TaskDone(IF d = "retry" THEN unfinished ELSE unfinished - 1)
        /\ WorkerTo(w, "idle")

\* The job ends without a retry: finally: task_done().
EndJob(w, fate, pc) ==
    /\ jinfo' = [jinfo EXCEPT ![wjob[w].jid].fate = fate]
    /\ TaskDone(unfinished - 1)
    /\ WorkerTo(w, pc)
    /\ queue' = queue

\* The history of a lifecycle call is kept until the step after its return.
Quiet ==
    /\ cret' = "none"
    /\ atStop' = IF cret = "stop" THEN {} ELSE atStop
    /\ stopIdle' = IF cret = "stop" THEN FALSE ELSE stopIdle
    /\ atWait' = IF cret = "wait" THEN {} ELSE atWait

\* ------------------------------------------------- product codes (SKUs)
\* A product code is a string, here a sequence of characters.
Digits == <<"0", "1", "2", "3", "4", "5", "6", "7", "8", "9">>
IsDigit(c) == \E d \in 1..Len(Digits) : Digits[d] = c
DigitValue(c) == (CHOOSE d \in 1..Len(Digits) : Digits[d] = c) - 1

\* The product codes that are submitted.
Skus == {<<"P", "1">>, <<"P", "0", "1">>, <<"A", "2">>, <<"2", "B">>, <<"P">>}

\* The arguments of get_many: lists of codes, repeats allowed.
SkuLists == UNION {[1..n -> Skus] : n \in 1..MaxSkus}

\* re.compile(r"(\d+)$").search(sku): the longest run of digits that ends
\* the code, empty when the code does not end in a digit.
RECURSIVE TrailingDigits(_)
TrailingDigits(sku) ==
    IF sku = <<>> \/ ~IsDigit(sku[Len(sku)]) THEN <<>>
    ELSE Append(TrailingDigits(SubSeq(sku, 1, Len(sku) - 1)), sku[Len(sku)])

\* int(digits)
RECURSIVE IntOf(_)
IntOf(ds) ==
    IF ds = <<>> THEN 0
    ELSE 10 * IntOf(SubSeq(ds, 1, Len(ds) - 1)) + DigitValue(ds[Len(ds)])

\* _extract_product_id raised ProductLookupError.
NoProductId == -1

\* An extraction that maps a code without trailing digits to product 0.
ExtractProductIdLenient(sku) == IntOf(TrailingDigits(sku))

\* _extract_product_id: str(int(match.group(1))), or ProductLookupError.
ExtractProductId(sku) ==
    IF TrailingDigits(sku) = <<>> THEN NoProductId
    ELSE IntOf(TrailingDigits(sku))

\* set(skus)
UniqueCodes(skus) == {skus[i] : i \in 1..Len(skus)}

\* One task per occurrence of a code in the argument.
TasksPerOccurrence(skus, c) == Cardinality({i \in 1..Len(skus) : skus[i] = c})

\* tasks = {sku: create_task(http.get(...)) for sku, product_id in
\* unique.items()}: the tasks created for code c.
TasksFor(skus, c) == IF c \in UniqueCodes(skus) THEN 1 ELSE 0

\* The orders in which a dict built from a set can be iterated.
Orders(S) ==
    {f \in [1..Cardinality(S) -> S] :
        \A i, j \in 1..Cardinality(S) : f[i] = f[j] => i = j}

\* No get_many call in progress.
GetManyIdle ==
    [pc |-> "idle", skus |-> <<>>, order |-> <<>>, idx |-> 0,
     task |-> [c \in Skus |-> "none"], calls |-> [c \in Skus |-> 0],
     result |-> {}, error |-> <<>>]

\* No AsyncHTTP.request call in progress.
RequestIdle ==
    [pc |-> "idle", retries |-> 0, attempt |-> 0, sent |-> 0, waits |-> 0,
     waited |-> 0, log |-> <<>>]

\* RedisOrderConsumer after __init__, and an empty Redis list.
\*   task: self._task is set;  stop: self._stop_event
\*   pc: the poll task ("none" when there is none);  running: poll tasks alive
\*   spc, sret: the caller of stop() and how its last call ended
\*   list: the Redis list;  cur: the order handed to the enqueue() under way
\*   history: pushed, popped, handed (to enqueue), errors, efail
ConsumerInit ==
    [task |-> FALSE, stop |-> FALSE, pc |-> "none", running |-> 0,
     spc |-> "idle", sret |-> "none", list |-> <<>>, cur |-> 0,
     pushed |-> 0, popped |-> <<>>, handed |-> <<>>, errors |-> 0, efail |-> 0]

\* No _process_order computation under way.  Amounts are in cents; a price
\* as the catalog returns it is in tenths of a cent.
PricingIdle ==
    [pc |-> "idle", items |-> <<>>, enriched |-> <<>>, total |-> 0,
     discount |-> 0, final |-> 0]

\* No content hash computed yet.
NoHash == [order |-> <<>>, final |-> 0, hash |-> <<>>]

\* ------------------------------------------------------------------ Init
Init ==
    /\ hashing = [prev |-> NoHash, last |-> NoHash]
    /\ pricing = PricingIdle
    /\ consumer = ConsumerInit
    /\ getmany = GetManyIdle
    /\ request = RequestIdle
    /\ queue = <<>>
    /\ unfinished = 0
    /\ shutdown = FALSE
    /\ wpc = [w \in Workers |-> "none"]
    /\ wjob = [w \in Workers |-> NoJob]
    /\ wexisting = [w \in Workers |-> FALSE]
    /\ wcancel = [w \in Workers |-> FALSE]
    /\ store = <<>>
    /\ cpc = "idle"
    /\ cret = "none"
    /\ ppc = "idle"
    /\ porder = 0
    /\ pexists = FALSE
    /\ jinfo = <<>>
    /\ writes = [o \in OrderIds |-> 0]
    /\ efails = 0
    /\ sfails = 0
    /\ atStop = {}
    /\ stopIdle = FALSE
    /\ atWait = {}

\* --------------------------------------------------------------- enqueue
\* enqueue(order): the payload is validated and the coroutine suspends in
\* _is_already_processed, whose select reads the table.
EnqueueCall(o) ==
    /\ UNCHANGED netvars
    /\ ppc = "idle"
    /\ Len(jinfo) < MaxJobs \/ IsAlreadyProcessed(o)
    /\ ppc' = "check"
    /\ porder' = o
    /\ pexists' = IsAlreadyProcessed(o)
    /\ Quiet
    /\ UNCHANGED <<queue, unfinished, shutdown, wpc, wjob, wexisting, wcancel,
                   store, cpc, jinfo, writes, efails, sfails>>

\* if await self._is_already_processed(payload.id): log; return
EnqueueIgnored ==
    /\ UNCHANGED netvars
    /\ ppc = "check"
    /\ pexists
    /\ ppc' = "idle"
    /\ porder' = 0
    /\ pexists' = FALSE
    /\ Quiet
    /\ UNCHANGED <<queue, unfinished, shutdown, wpc, wjob, wexisting, wcancel,
                   store, cpc, jinfo, writes, efails, sfails>>

\* await self._queue.put(QueueJob(payload=payload)); return.  The queue is
\* unbounded, so put() does not suspend.
EnqueuePut ==
    /\ UNCHANGED netvars
    /\ ppc = "check"
    /\ ~pexists
    /\ queue' = Put(queue, QueueJob(porder, Len(jinfo) + 1))
    /\ unfinished' = unfinished + 1
    /\ jinfo' = Append(jinfo, [oid |-> porder, pulls |-> 0, calls |-> 0,
                               efail |-> 0, fate |-> "live", sd |-> shutdown])
    /\ ppc' = "idle"
    /\ porder' = 0
    /\ pexists' = FALSE
    /\ Quiet
    /\ UNCHANGED <<shutdown, wpc, wjob, wexisting, wcancel, store, cpc, writes,
                   efails, sfails>>

\* The select of _is_already_processed raises (store outage): enqueue()
\* raises to its caller and nothing is put.
EnqueueStoreFault ==
    /\ UNCHANGED netvars
    /\ ppc = "check"
    /\ sfails < MaxStoreFail
    /\ sfails' = sfails + 1
    /\ ppc' = "idle"
    /\ porder' = 0
    /\ pexists' = FALSE
    /\ Quiet
    /\ UNCHANGED <<queue, unfinished, shutdown, wpc, wjob, wexisting, wcancel,
                   store, cpc, jinfo, writes, efails>>

\* ----------------------------------------------------------- worker loop
\* if self._shutdown_event.is_set() and self._queue.empty(): break
WorkerExit(w) ==
    /\ UNCHANGED netvars
    /\ wpc[w] = "idle"
    /\ ~wcancel[w]
    /\ shutdown
    /\ queue = <<>>
    /\ wpc' = [wpc EXCEPT ![w] = "done"]
    /\ Quiet
    /\ UNCHANGED <<queue, unfinished, shutdown, wjob, wexisting, wcancel, store,
                   cpc, ppc, porder, pexists, jinfo, writes, efails, sfails>>

\* job = await wait_for(self._queue.get(), 0.5); _process_job starts and
\* suspends in _is_already_processed.
WorkerGet(w) ==
    /\ UNCHANGED netvars
    /\ wpc[w] = "idle"
    /\ ~wcancel[w]
    /\ queue # <<>>
    /\ wjob' = [wjob EXCEPT ![w] = Head(queue)]
    /\ queue' = Tail(queue)
    /\ wpc' = [wpc EXCEPT ![w] = "dedup"]
    /\ jinfo' = [jinfo EXCEPT ![Head(queue).jid].pulls = @ + 1]
    /\ Quiet
    /\ UNCHANGED <<unfinished, shutdown, wexisting, wcancel, store, cpc, ppc,
                   porder, pexists, writes, efails, sfails>>

\* _process_job: the order id has a row by now: skip, task_done.
WorkerSkip(w) ==
    /\ UNCHANGED netvars
    /\ wpc[w] = "dedup"
    /\ ~wcancel[w]
    /\ IsAlreadyProcessed(wjob[w].oid)
    /\ EndJob(w, "skipped", "idle")
    /\ Quiet
    /\ UNCHANGED <<shutdown, wcancel, store, ppc, porder, pexists, writes, efails,
                   sfails>>

\* _process_job: no row: _process_order calls get_many and suspends in it.
WorkerCallProvider(w) ==
    /\ UNCHANGED netvars
    /\ wpc[w] = "dedup"
    /\ ~wcancel[w]
    /\ ~IsAlreadyProcessed(wjob[w].oid)
    /\ wpc' = [wpc EXCEPT ![w] = "fetch"]
    /\ jinfo' = [jinfo EXCEPT ![wjob[w].jid].calls = @ + 1]
    /\ Quiet
    /\ UNCHANGED <<queue, unfinished, shutdown, wjob, wexisting, wcancel, store,
                   cpc, ppc, porder, pexists, writes, efails, sfails>>

\* get_many returned: the record is computed, _persist_processed opens a
\* session and suspends in its select.
WorkerFetched(w) ==
    /\ UNCHANGED netvars
    /\ wpc[w] = "fetch"
    /\ ~wcancel[w]
    /\ wpc' = [wpc EXCEPT ![w] = "select"]
    /\ Quiet
    /\ UNCHANGED <<queue, unfinished, shutdown, wjob, wexisting, wcancel, store,
                   cpc, ppc, porder, pexists, jinfo, writes, efails, sfails>>

\* A failed get_many taken for a result without product data: the attempt
\* goes on to the store.
WorkerFetchFailedPersists(w) ==
    /\ UNCHANGED netvars
    /\ wpc[w] = "fetch"
    /\ ~wcancel[w]
    /\ efails < MaxEnrichFail
    /\ efails' = efails + 1
    /\ jinfo' = [jinfo EXCEPT ![wjob[w].jid].efail = @ + 1]
    /\ wpc' = [wpc EXCEPT ![w] = "select"]
    /\ Quiet
    /\ UNCHANGED <<queue, unfinished, shutdown, wjob, wexisting, wcancel, store,
                   cpc, ppc, porder, pexists, writes, sfails>>

\* get_many raised ProductLookupError: _handle_failure, task_done.
WorkerFetchFailed(w) ==
    /\ UNCHANGED netvars
    /\ wpc[w] = "fetch"
    /\ ~wcancel[w]
    /\ efails < MaxEnrichFail
    /\ efails' = efails + 1
    /\ HandleFailure(w, [jinfo EXCEPT ![wjob[w].jid].efail = @ + 1])
    /\ Quiet
    /\ UNCHANGED <<shutdown, wcancel, store, ppc, porder, pexists, writes, sfails>>

\* existing = await session.scalar(select(ProcessedOrder)...); the row is
\* changed or added in the session, and the coroutine suspends in commit.
WorkerSelected(w) ==
    /\ UNCHANGED netvars
    /\ wpc[w] = "select"
    /\ ~wcancel[w]
    /\ wexisting' = [wexisting EXCEPT ![w] = IsAlreadyProcessed(wjob[w].oid)]
    /\ wpc' = [wpc EXCEPT ![w] = "commit"]
    /\ Quiet
    /\ UNCHANGED <<queue, unfinished, shutdown, wjob, wcancel, store, cpc, ppc,
                   porder, pexists, jinfo, writes, efails, sfails>>

\* What session.commit() does to the table: an UPDATE of the row that was
\* selected, or an INSERT.
Committed(w) ==
    IF wexisting[w] THEN UpdateRows(wjob[w].oid, wjob[w].jid)
    ELSE InsertRow(wjob[w].oid, wjob[w].jid)

\* The INSERT meets a row of the same order id: IntegrityError.
CommitRejected(w) == ~wexisting[w] /\ UniqueViolation(wjob[w].oid)

\* await session.commit() succeeded: the job is done, task_done.
WorkerCommitted(w) ==
    /\ UNCHANGED netvars
    /\ wpc[w] = "commit"
    /\ ~wcancel[w]
    /\ ~CommitRejected(w)
    /\ store' = Committed(w)
    /\ writes' = [writes EXCEPT ![wjob[w].oid] = @ + 1]
    /\ EndJob(w, "stored", "idle")
    /\ Quiet
    /\ UNCHANGED <<shutdown, wcancel, ppc, porder, pexists, efails, sfails>>

\* await session.commit() raised IntegrityError: except Exception:
\* _handle_failure, task_done.
WorkerCommitRejected(w) ==
    /\ UNCHANGED netvars
    /\ wpc[w] = "commit"
    /\ ~wcancel[w]
    /\ CommitRejected(w)
    /\ HandleFailure(w, jinfo)
    /\ Quiet
    /\ UNCHANGED <<shutdown, wcancel, store, ppc, porder, pexists, writes, efails,
                   sfails>>

\* task.cancel() is delivered at the await the task is suspended in:
\* CancelledError is no Exception, so no except clause of _process_job
\* catches it; finally: task_done() runs when a job is held, and the task
\* ends.  A commit that was under way may or may not have reached the table.
WorkerCancelled(w) ==
    /\ UNCHANGED netvars
    /\ wcancel[w]
    /\ Alive(w)
    /\ wcancel' = [wcancel EXCEPT ![w] = FALSE]
    /\ Quiet
    /\ IF wpc[w] = "idle"
       THEN /\ wpc' = [wpc EXCEPT ![w] = "done"]
            /\ UNCHANGED <<queue, unfinished, wjob, wexisting, store, cpc,
                           jinfo, writes>>
       ELSE /\ EndJob(w, "cancelled", "done")
            /\ \/ UNCHANGED <<store, writes>>
               \/ /\ wpc[w] = "commit"
                  /\ ~CommitRejected(w)
                  /\ store' = Committed(w)
                  /\ writes' = [writes EXCEPT ![wjob[w].oid] = @ + 1]
    /\ UNCHANGED <<shutdown, ppc, porder, pexists, efails, sfails>>

\* ------------------------------------------------------- store outages
\* The select of _is_already_processed raises in _process_job, before its
\* try block: no except clause applies, finally: task_done() runs, and the
\* exception ends _worker_loop.
WorkerDedupFault(w) ==
    /\ UNCHANGED netvars
    /\ wpc[w] = "dedup"
    /\ ~wcancel[w]
    /\ sfails < MaxStoreFail
    /\ sfails' = sfails + 1
    /\ EndJob(w, "crashed", "done")
    /\ Quiet
    /\ UNCHANGED <<shutdown, wcancel, store, ppc, porder, pexists, writes,
                   efails>>

\* The select of _persist_processed raises: except Exception:
\* _handle_failure, task_done.
WorkerSelectFault(w) ==
    /\ UNCHANGED netvars
    /\ wpc[w] = "select"
    /\ ~wcancel[w]
    /\ sfails < MaxStoreFail
    /\ sfails' = sfails + 1
    /\ HandleFailure(w, jinfo)
    /\ Quiet
    /\ UNCHANGED <<shutdown, wcancel, store, ppc, porder, pexists, writes,
                   efails>>

\* session.commit() raises and nothing is written: except Exception:
\* _handle_failure, task_done.
WorkerCommitFault(w) ==
    /\ UNCHANGED netvars
    /\ wpc[w] = "commit"
    /\ ~wcancel[w]
    /\ sfails < MaxStoreFail
    /\ sfails' = sfails + 1
    /\ HandleFailure(w, jinfo)
    /\ Quiet
    /\ UNCHANGED <<shutdown, wcancel, store, ppc, porder, pexists, writes,
                   efails>>

\* ----------------------------------------------------- start, stop, wait
\* self._workers: the tasks start() appended and stop() has not cleared,
\* ended or not.
WorkerTasks == {w \in Workers : wpc[w] # "none"}

\* A start() that takes the worker list for empty.
HasWorkersNever == FALSE

\* if self._workers: return
HasWorkers == WorkerTasks # {}

\* A start() that leaves the event as it finds it.
EventKept == shutdown

\* self._shutdown_event.clear()
EventCleared == FALSE

\* start(): no-op when self._workers is not empty.
Start ==
    /\ UNCHANGED netvars
    /\ cpc = "idle"
    /\ Quiet
    /\ IF HasWorkers
       THEN UNCHANGED <<shutdown, wpc>>
       ELSE /\ shutdown' = EventCleared
            /\ wpc' = [w \in Workers |-> "idle"]
    /\ UNCHANGED <<queue, unfinished, wjob, wexisting, wcancel, store, cpc, ppc,
                   porder, pexists, jinfo, writes, efails, sfails>>

\* for task in self._workers: task.cancel()
CancelAll == [w \in Workers |-> Alive(w)]

QueuedJids == {queue[i].jid : i \in 1..Len(queue)}

\* A join() that never waits.
JoinReadyAlways == TRUE

\* Queue.join() suspends only while the counter is above 0.
JoinReady == unfinished = 0

\* stop(): the event is set; join() either suspends or returns at once, and
\* then the workers are cancelled and gather() awaited.  With no worker task
\* gather() of nothing does not suspend either and stop() returns.
StopCall ==
    /\ UNCHANGED netvars
    /\ cpc = "idle"
    /\ shutdown' = TRUE
    /\ atStop' = QueuedJids
    /\ stopIdle' = \A w \in Workers : wpc[w] = "idle"
    /\ jinfo' = [j \in 1..Len(jinfo) |->
                    IF jinfo[j].fate = "live" THEN [jinfo[j] EXCEPT !.sd = TRUE]
                    ELSE jinfo[j]]
    /\ IF ~JoinReady
       THEN /\ cpc' = "stop_join"
            /\ cret' = "none"
            /\ UNCHANGED <<wcancel, wpc>>
       ELSE IF \E w \in Workers : wpc[w] # "none"
       THEN /\ cpc' = "stop_gather"
            /\ cret' = "none"
            /\ wcancel' = CancelAll
            /\ UNCHANGED wpc
       ELSE /\ cpc' = "idle"
            /\ cret' = "stop"
            /\ UNCHANGED <<wcancel, wpc>>
    /\ atWait' = {}
    /\ UNCHANGED <<queue, unfinished, wjob, wexisting, store, ppc, porder, pexists,
                   writes, efails, sfails>>

\* stop() resumes from join(): it does not look at the counter again.
StopCancel ==
    /\ UNCHANGED netvars
    /\ cpc = "stop_wake"
    /\ Quiet
    /\ cpc' = "stop_gather"
    /\ wcancel' = CancelAll
    /\ UNCHANGED <<queue, unfinished, shutdown, wpc, wjob, wexisting, store,
                   ppc, porder, pexists, jinfo, writes, efails, sfails>>

\* gather() is done when every worker task has ended; self._workers.clear().
StopReturn ==
    /\ UNCHANGED netvars
    /\ cpc = "stop_gather"
    /\ \A w \in Workers : ~Alive(w)
    /\ wpc' = [w \in Workers |-> "none"]
    /\ cpc' = "idle"
    /\ cret' = "stop"
    /\ UNCHANGED <<queue, unfinished, shutdown, wjob, wexisting, wcancel, store,
                   ppc, porder, pexists, jinfo, writes, efails, sfails, atStop, stopIdle,
                   atWait>>

\* wait_for_all(): await self._queue.join()
WaitCall ==
    /\ UNCHANGED netvars
    /\ cpc = "idle"
    /\ atWait' = 1..Len(jinfo)
    /\ atStop' = {}
    /\ stopIdle' = FALSE
    /\ IF JoinReady
       THEN /\ cret' = "wait"
            /\ UNCHANGED cpc
       ELSE /\ cret' = "none"
            /\ cpc' = "wait_join"
    /\ UNCHANGED <<queue, unfinished, shutdown, wpc, wjob, wexisting, wcancel,
                   store, ppc, porder, pexists, jinfo, writes, efails, sfails>>

WaitReturn ==
    /\ UNCHANGED netvars
    /\ cpc = "wait_wake"
    /\ cpc' = "idle"
    /\ cret' = "wait"
    /\ UNCHANGED <<queue, unfinished, shutdown, wpc, wjob, wexisting, wcancel,
                   store, ppc, porder, pexists, jinfo, writes, efails, sfails, atStop,
                   stopIdle, atWait>>

\* ------------------------------------------------------------------ Next
\* One step of worker task w, the store answering.
WorkerStep(w) ==
    \/ WorkerExit(w)
    \/ WorkerGet(w)
    \/ WorkerSkip(w)
    \/ WorkerCallProvider(w)
    \/ WorkerFetched(w)
    \/ WorkerFetchFailed(w)
    \/ WorkerSelected(w)
    \/ WorkerCommitted(w)
    \/ WorkerCommitRejected(w)
    \/ WorkerCancelled(w)

Next ==
    \/ \E o \in OrderIds : EnqueueCall(o)
    \/ EnqueueIgnored
    \/ EnqueuePut
    \/ \E w \in Workers : WorkerExit(w)
    \/ \E w \in Workers : WorkerGet(w)
    \/ \E w \in Workers : WorkerSkip(w)
    \/ \E w \in Workers : WorkerCallProvider(w)
    \/ \E w \in Workers : WorkerFetched(w)
    \/ \E w \in Workers : WorkerFetchFailed(w)
    \/ \E w \in Workers : WorkerSelected(w)
    \/ \E w \in Workers : WorkerCommitted(w)
    \/ \E w \in Workers : WorkerCommitRejected(w)
    \/ \E w \in Workers : WorkerCancelled(w)
    \/ Start
    \/ StopCall
    \/ StopCancel
    \/ StopReturn
    \/ WaitCall
    \/ WaitReturn

\* The pipeline over a store that answers every call.
Spec == Init /\ [][Next]_vars

\* The pipeline over a store that can also fail a call.
NextF ==
    \/ Next
    \/ EnqueueStoreFault
    \/ \E w \in Workers : WorkerDedupFault(w)
    \/ \E w \in Workers : WorkerSelectFault(w)
    \/ \E w \in Workers : WorkerCommitFault(w)

SpecF == Init /\ [][NextF]_vars

\* The event loop runs every task that can run, and every provider and store
\* call returns: a worker task that can take a step takes one, and stop() and
\* wait_for_all() resume once woken.  Nothing obliges a caller to call
\* enqueue(), start(), stop() or wait_for_all().
Fairness ==
    /\ \A w \in Workers :
          WF_vars(WorkerStep(w) \/ WorkerDedupFault(w) \/ WorkerSelectFault(w)
                    \/ WorkerCommitFault(w))
    /\ WF_vars(StopCancel)
    /\ WF_vars(StopReturn)
    /\ WF_vars(WaitReturn)
    /\ WF_vars(EnqueueIgnored \/ EnqueuePut \/ EnqueueStoreFault)

FairSpecF == SpecF /\ Fairness

\* The same event loop over a store that answers every call.
FairnessAnswering ==
    /\ \A w \in Workers : WF_vars(WorkerStep(w))
    /\ WF_vars(StopCancel)
    /\ WF_vars(StopReturn)
    /\ WF_vars(WaitReturn)
    /\ WF_vars(EnqueueIgnored \/ EnqueuePut)

FairSpec == Spec /\ FairnessAnswering

\* -------------------------------------------------------------- get_many
\* get_many(skus) when a code has no trailing digits: the dict comprehension
\* over set(skus) raises at the first such code it meets, before the HTTP
\* client is made and before any task is created.
GetManyUnmappable(skus) ==
    /\ getmany.pc = "idle"
    /\ \E c \in UniqueCodes(skus) :
          /\ ExtractProductId(c) = NoProductId
          /\ getmany' = [GetManyIdle EXCEPT !.pc = "raised", !.skus = skus,
                                            !.error = c]
    /\ UNCHANGED <<pipevars, request, consumer, pricing, hashing>>

\* get_many(skus) when every code maps to a product id: one task per key of
\* unique is created, and the coroutine suspends in the await of the first.
GetManyCall(skus) ==
    /\ getmany.pc = "idle"
    /\ \A c \in UniqueCodes(skus) : ExtractProductId(c) # NoProductId
    /\ \E ord \in Orders({c \in Skus : TasksFor(skus, c) > 0}) :
          getmany' = [GetManyIdle EXCEPT
                         !.pc = "await", !.skus = skus, !.order = ord, !.idx = 1,
                         !.task = [c \in Skus |->
                                     IF TasksFor(skus, c) > 0 THEN "pending"
                                     ELSE "none"],
                         !.calls = [c \in Skus |-> TasksFor(skus, c)]]
    /\ UNCHANGED <<pipevars, request, consumer, pricing, hashing>>

\* The task of code c ends: http.get returned the product or raised.
FetchEnds(c, outcome) ==
    /\ getmany.pc = "await"
    /\ getmany.task[c] = "pending"
    /\ getmany' = [getmany EXCEPT !.task[c] = outcome]
    /\ UNCHANGED <<pipevars, request, consumer, pricing, hashing>>

\* An await that takes a failed task for a product.
AwaitRaisesNever(t) == FALSE

\* results[sku] = await task: raises what the task raised.
AwaitRaises(t) == t = "fail"

\* The awaited task returned: its product goes into results, and the loop
\* awaits the next task or, after the last, get_many returns results.
GetManyAwaited ==
    /\ getmany.pc = "await"
    /\ getmany.task[getmany.order[getmany.idx]] # "pending"
    /\ ~AwaitRaises(getmany.task[getmany.order[getmany.idx]])
    /\ getmany' = [getmany EXCEPT
                      !.result = @ \cup {getmany.order[getmany.idx]},
                      !.idx = IF @ = Len(getmany.order) THEN @ ELSE @ + 1,
                      !.pc = IF getmany.idx = Len(getmany.order)
                             THEN "returned" ELSE "await"]
    /\ UNCHANGED <<pipevars, request, consumer, pricing, hashing>>

\* The awaited task raised: raise ProductLookupError(f"Failed to fetch
\* product {sku}"); results is dropped.
GetManyRaised ==
    /\ getmany.pc = "await"
    /\ AwaitRaises(getmany.task[getmany.order[getmany.idx]])
    /\ getmany' = [getmany EXCEPT !.pc = "raised", !.result = {},
                                  !.error = getmany.order[getmany.idx]]
    /\ UNCHANGED <<pipevars, request, consumer, pricing, hashing>>

\* The caller has the mapping or the error.
GetManyDone ==
    /\ getmany.pc \in {"returned", "raised"}
    /\ getmany' = GetManyIdle
    /\ UNCHANGED <<pipevars, request, consumer, pricing, hashing>>

NextG ==
    \/ \E skus \in SkuLists : GetManyUnmappable(skus)
    \/ \E skus \in SkuLists : GetManyCall(skus)
    \/ \E c \in Skus, outcome \in {"ok", "fail"} : FetchEnds(c, outcome)
    \/ GetManyAwaited
    \/ GetManyRaised
    \/ GetManyDone

\* Calls of FakeStoreProductProvider.get_many, one at a time.
SpecG == Init /\ [][NextG]_vars

\* ------------------------------------------------------ AsyncHTTP.request
\* RETRY_STATUSES = (429, 500, 502, 503, 504)
RETRY_STATUSES == {429, 500, 502, 503, 504}

\* The statuses the remote service answers with.
Statuses == {200, 400, 404, 429, 500, 501, 502, 503, 504}

\* No response: httpx.RequestError or asyncio.TimeoutError.
NetError == 0

\* r.raise_for_status() raises HTTPStatusError.
IsErrorStatus(st) == st >= 400

\* A client that retries whatever failed while attempts remain.
ShouldRetryAnyFailure(attempt, retries, st) == attempt < retries

\* A client that never retries.
ShouldRetryNever(attempt, retries, st) == FALSE

\* The two except clauses of request: sleep and continue, or raise.
ShouldRetry(attempt, retries, st) ==
    IF st = NetError THEN attempt < retries
    ELSE attempt < retries /\ st \in RETRY_STATUSES

\* http.request(...) with a client made with retries = r: the loop starts
\* with attempt 0 and suspends in the first self._client.request.
RequestCall(r) ==
    /\ request.pc = "idle"
    /\ request' = [RequestIdle EXCEPT !.pc = "sending", !.retries = r,
                                      !.sent = 1]
    /\ UNCHANGED <<pipevars, getmany, consumer, pricing, hashing>>

\* A response that raise_for_status accepts: return _parse(r, parse).
RequestReturns(st) ==
    /\ request.pc = "sending"
    /\ st # NetError /\ ~IsErrorStatus(st)
    /\ request' = [request EXCEPT !.pc = "returned", !.log = Append(@, st)]
    /\ UNCHANGED <<pipevars, getmany, consumer, pricing, hashing>>

\* A failure that is retried: await asyncio.sleep(backoff * 2 ** attempt).
RequestBacksOff(st) ==
    /\ request.pc = "sending"
    /\ st = NetError \/ IsErrorStatus(st)
    /\ ShouldRetry(request.attempt, request.retries, st)
    /\ request' = [request EXCEPT !.pc = "backoff", !.log = Append(@, st),
                                  !.waits = @ + 1,
                                  !.waited = @ + 2 ^ request.attempt]
    /\ UNCHANGED <<pipevars, getmany, consumer, pricing, hashing>>

\* A failure that is not retried: raise.
RequestRaises(st) ==
    /\ request.pc = "sending"
    /\ st = NetError \/ IsErrorStatus(st)
    /\ ~ShouldRetry(request.attempt, request.retries, st)
    /\ request' = [request EXCEPT !.pc = "raised", !.log = Append(@, st)]
    /\ UNCHANGED <<pipevars, getmany, consumer, pricing, hashing>>

\* The sleep is over: continue; the next attempt sends its request.
BackoffEnds ==
    /\ request.pc = "backoff"
    /\ request' = [request EXCEPT !.pc = "sending", !.attempt = @ + 1,
                                  !.sent = @ + 1]
    /\ UNCHANGED <<pipevars, getmany, consumer, pricing, hashing>>

\* The caller has the response or the error.
RequestDone ==
    /\ request.pc \in {"returned", "raised"}
    /\ request' = RequestIdle
    /\ UNCHANGED <<pipevars, getmany, consumer, pricing, hashing>>

NextH ==
    \/ \E r \in 0..MaxHttpRetries : RequestCall(r)
    \/ \E st \in Statuses : RequestReturns(st)
    \/ \E st \in Statuses \cup {NetError} : RequestBacksOff(st)
    \/ \E st \in Statuses \cup {NetError} : RequestRaises(st)
    \/ BackoffEnds
    \/ RequestDone

\* Calls of AsyncHTTP.request, one at a time.
SpecH == Init /\ [][NextH]_vars

\* ----------------------------------------------------- RedisOrderConsumer
\* What is pushed to the Redis list: text that is not JSON, or a JSON order
\* with an id and a number of items; seq tells the payloads apart.
Payloads(n) ==
    {[seq |-> n, json |-> FALSE, id |-> 0, items |-> 0]}
    \cup [seq : {n}, json : {TRUE}, id : {0, 1}, items : {0, 1}]

\* A consumer that takes every payload for an order.
DecodesAnything(p) == TRUE

\* json.loads(payload) and OrderCreate.model_validate(raw) both succeed:
\* id > 0 and at least one item.
Decodes(p) == p.json /\ p.id > 0 /\ p.items > 0

\* while not self._stop_event.is_set(): the loop ends, or suspends in blpop.
LoopHead(c) ==
    IF c.stop THEN [c EXCEPT !.pc = "ended", !.running = @ - 1]
    ELSE [c EXCEPT !.pc = "poll"]

OthersUnchangedR == UNCHANGED <<pipevars, getmany, request, pricing, hashing>>

\* A producer outside the program pushes a payload.
RedisPush(p) ==
    /\ consumer.pushed < MaxPayloads
    /\ consumer' = [consumer EXCEPT !.list = Append(@, p), !.pushed = @ + 1]
    /\ OthersUnchangedR

\* if self._task: return
HasPollTask == consumer.task

\* start(processor): no-op when a task exists; else the event is cleared and
\* the poll task created.
ConsumerStart ==
    /\ consumer' = IF HasPollTask THEN [consumer EXCEPT !.sret = "none"]
                   ELSE [consumer EXCEPT !.stop = FALSE, !.task = TRUE,
                                         !.pc = "new", !.running = @ + 1,
                                         !.sret = "none"]
    /\ OthersUnchangedR

\* The poll task runs for the first time.
ConsumerRunBegins ==
    /\ consumer.pc = "new"
    /\ consumer' = LoopHead(consumer)
    /\ OthersUnchangedR

\* blpop returned None after the poll timeout: continue.
ConsumerPopTimeout ==
    /\ consumer.pc = "poll"
    /\ consumer.list = <<>>
    /\ consumer' = LoopHead(consumer)
    /\ OthersUnchangedR

\* blpop returned a payload that does not decode: log, continue.
ConsumerPopInvalid ==
    /\ consumer.pc = "poll"
    /\ consumer.list # <<>>
    /\ ~Decodes(Head(consumer.list))
    /\ consumer' = LoopHead([consumer EXCEPT
                                !.list = Tail(@),
                                !.popped = Append(@, Head(consumer.list))])
    /\ OthersUnchangedR

\* blpop returned an order: await processor.enqueue(order).
ConsumerPopOrder ==
    /\ consumer.pc = "poll"
    /\ consumer.list # <<>>
    /\ Decodes(Head(consumer.list))
    /\ consumer' = [consumer EXCEPT
                       !.list = Tail(@),
                       !.popped = Append(@, Head(consumer.list)),
                       !.handed = Append(@, Head(consumer.list)),
                       !.cur = Head(consumer.list).seq,
                       !.pc = "enqueue"]
    /\ OthersUnchangedR

\* A pop error that is not caught: the exception ends the poll task.
ConsumerPopErrorEndsLoop ==
    /\ consumer.pc = "poll"
    /\ consumer.errors < MaxPopErrors
    /\ consumer' = [consumer EXCEPT !.pc = "failed", !.errors = @ + 1,
                                    !.running = @ - 1]
    /\ OthersUnchangedR

\* blpop raised (connection error): log, await asyncio.sleep(1).
ConsumerPopError ==
    /\ consumer.pc = "poll"
    /\ consumer.errors < MaxPopErrors
    /\ consumer' = [consumer EXCEPT !.pc = "backoff", !.errors = @ + 1]
    /\ OthersUnchangedR

\* The sleep is over: continue.
ConsumerBackoffEnds ==
    /\ consumer.pc = "backoff"
    /\ consumer' = LoopHead(consumer)
    /\ OthersUnchangedR

\* processor.enqueue(order) returned: next pass of the loop.
ConsumerEnqueueReturns ==
    /\ consumer.pc = "enqueue"
    /\ consumer' = LoopHead([consumer EXCEPT !.cur = 0])
    /\ OthersUnchangedR

\* processor.enqueue(order) raised (its select failed): line 74 is in no try
\* block, so the exception ends the poll task.
ConsumerEnqueueRaises ==
    /\ consumer.pc = "enqueue"
    /\ consumer.efail < MaxEnqueueFail
    /\ consumer' = [consumer EXCEPT !.pc = "failed", !.cur = 0,
                                    !.efail = @ + 1, !.running = @ - 1]
    /\ OthersUnchangedR

\* await self._task, the task having ended: with its exception, which the
\* await raises in stop(), or without, and then self._task = None.
StopOutcome(c) ==
    IF c.pc = "failed" THEN [c EXCEPT !.spc = "idle", !.sret = "raised"]
    ELSE [c EXCEPT !.spc = "idle", !.sret = "returned", !.task = FALSE,
                   !.pc = "none"]

\* stop(): returns at once without a task; else sets the event and awaits
\* the task.
ConsumerStop ==
    /\ consumer.spc = "idle"
    /\ consumer' =
          IF ~consumer.task THEN [consumer EXCEPT !.sret = "returned"]
          ELSE IF consumer.pc \in {"ended", "failed"}
          THEN StopOutcome([consumer EXCEPT !.stop = TRUE])
          ELSE [consumer EXCEPT !.stop = TRUE, !.spc = "await",
                                !.sret = "none"]
    /\ OthersUnchangedR

\* stop() resumes when the poll task has ended.
ConsumerStopResumes ==
    /\ consumer.spc = "await"
    /\ consumer.pc \in {"ended", "failed"}
    /\ consumer' = StopOutcome(consumer)
    /\ OthersUnchangedR

NextR ==
    \/ \E p \in Payloads(consumer.pushed + 1) : RedisPush(p)
    \/ ConsumerStart
    \/ ConsumerRunBegins
    \/ ConsumerPopTimeout
    \/ ConsumerPopInvalid
    \/ ConsumerPopOrder
    \/ ConsumerPopError
    \/ ConsumerBackoffEnds
    \/ ConsumerEnqueueReturns
    \/ ConsumerEnqueueRaises
    \/ ConsumerStop
    \/ ConsumerStopResumes

\* The consumer, the Redis list and the callers of start() and stop().
SpecR == Init /\ [][NextR]_vars

\* The event loop runs the poll task and the caller of stop() when they can
\* run, and blpop, sleep and enqueue come back: each blocking pop returns
\* within the poll timeout.
FairnessR ==
    /\ WF_vars(ConsumerRunBegins)
    /\ WF_vars(ConsumerPopTimeout \/ ConsumerPopInvalid \/ ConsumerPopOrder
                  \/ ConsumerPopError)
    /\ WF_vars(ConsumerBackoffEnds)
    /\ WF_vars(ConsumerEnqueueReturns \/ ConsumerEnqueueRaises)
    /\ WF_vars(ConsumerStopResumes)

FairSpecR == SpecR /\ FairnessR

\* -------------------------------------------------------- _process_order
\* api_info.get("price") is None: the catalog gave no price.
NoPrice == -1

\* The line items that are submitted: quantity, unit_price in cents (the
\* schema rounds it to 2 decimals), and the catalog's price for the code in
\* tenths of a cent, or NoPrice.
Items ==
    [qty : {1, 3, 5}, unit : {1000, 2000, 25000, 25005},
     api : {NoPrice, 4, 15, 55500, 120000}]

ItemLists == UNION {[1..n -> Items] : n \in 1..MaxItems}

\* round(x, 2) of the float x = n / d cents: the nearest cent; when n / d is
\* halfway between two cents the float is a little below or above it, and
\* the result is the one or the other (up).
RoundCents(n, d, up) ==
    IF (2 * n) % (2 * d) = d THEN (IF up THEN (n \div d) + 1 ELSE n \div d)
    ELSE (2 * n + d) \div (2 * d)

\* api_price = round(float(api_price_raw), 2) if api_price_raw is not None
ApiPrice(item, up) ==
    IF item.api = NoPrice THEN NoPrice ELSE RoundCents(item.api, 10, up)

\* Pricing that ignores the catalog.
UnitPriceSubmitted(item, up) == item.unit

\* unit_price = api_price if api_price is not None else product.unit_price
UnitPrice(item, up) ==
    IF ApiPrice(item, up) # NoPrice THEN ApiPrice(item, up) ELSE item.unit

\* line_total = round(unit_price * product.quantity, 2): a whole number of
\* cents times an integer.
LineTotal(item, up) == UnitPrice(item, up) * item.qty

\* EnrichedProduct(...) for one line item.
Enriched(item, up) ==
    [qty |-> item.qty, unit |-> item.unit, api |-> ApiPrice(item, up),
     line |-> LineTotal(item, up)]

\* subtotal += line_total over the items; subtotal = round(subtotal, 2)
RECURSIVE Subtotal(_)
Subtotal(lines) ==
    IF lines = <<>> THEN 0
    ELSE Subtotal(SubSeq(lines, 1, Len(lines) - 1)) + lines[Len(lines)].line

\* A discount that starts at 500.
DiscountFromFiveHundred(total, up) ==
    IF total >= 50000 THEN RoundCents(total, 10, up) ELSE 0

\* discount = round(subtotal * 0.10, 2) if subtotal > 500 else 0.0
Discount(total, up) ==
    IF total > 50000 THEN RoundCents(total, 10, up) ELSE 0

\* _process_order after get_many returned: the items are enriched in
\* order, then subtotal, discount and final_total.
PriceOrder(items, upi, upd) ==
    /\ pricing.pc = "idle"
    /\ LET en == [i \in 1..Len(items) |-> Enriched(items[i], upi)]
           t == Subtotal(en)
       IN  pricing' = [pc |-> "done", items |-> items, enriched |-> en,
                       total |-> t, discount |-> Discount(t, upd),
                       final |-> t - Discount(t, upd)]
    /\ UNCHANGED <<pipevars, getmany, request, consumer, hashing>>

\* The record is handed to _persist_processed.
PricingDone ==
    /\ pricing.pc = "done"
    /\ pricing' = PricingIdle
    /\ UNCHANGED <<pipevars, getmany, request, consumer, hashing>>

NextP ==
    \/ \E items \in ItemLists, upi, upd \in BOOLEAN :
          PriceOrder(items, upi, upd)
    \/ PricingDone

\* The amounts _process_order computes, one order at a time.
SpecP == Init /\ [][NextP]_vars

\* --------------------------------------------------- _default_hash_factory
\* The orders that are hashed.  submitted_at is an instant, in minutes, and
\* the UTC offset, in minutes, of the timestamp that was submitted; items is
\* the list of the codes.
HashedOrders ==
    [id : 1..NumOrderIds, customer : {"ana", "bo"}, instant : {0, 60},
     offset : {0, 60}, items : {<<1>>, <<1, 2>>, <<2, 1>>}]

\* The final totals that are hashed, in cents.
FinalTotals == {0, 57375}

\* datetime.isoformat(): the wall-clock time of the datetime's own offset,
\* followed by that offset.
IsoFormat(instant, offset) == <<instant + offset, offset>>

\* json.dumps(..., sort_keys=True) of the four keys: the values in the order
\* customer, final_total, order_id, submitted_at.
HashPayload(order, final) ==
    <<order.customer, final, order.id, IsoFormat(order.instant, order.offset)>>

\* hashlib.sha256(payload).hexdigest(): equal for equal payloads and taken
\* to differ for different ones, so the digest is stood for by the payload.
DefaultHashFactory(order, final) == HashPayload(order, final)

\* hash_id = self._hash_factory(order, final_total) of one processing; the
\* one before it is kept beside it.
HashOrder(order, final) ==
    /\ hashing' = [prev |-> hashing.last,
                   last |-> [order |-> order, final |-> final,
                             hash |-> DefaultHashFactory(order, final)]]
    /\ UNCHANGED <<pipevars, getmany, request, consumer, pricing>>

NextD == \E order \in HashedOrders, final \in FinalTotals : HashOrder(order, final)

\* The content hashes of successive processings.
SpecD == Init /\ [][NextD]_vars

\* ================================================================ claims
RecordCount(o) == Cardinality(RowsOf(o))
JobIds == 1..Len(jinfo)
JobsOf(o) == {j \in JobIds : jinfo[j].oid = o}
Gone(j) == jinfo[j].fate # "live"
HeldJids == {wjob[w].jid : w \in {v \in Workers : wpc[v] \in InFlight}}

RECURSIVE SumCalls(_)
SumCalls(S) ==
    IF S = {} THEN 0
    ELSE LET j == CHOOSE x \in S : TRUE
         IN  jinfo[j].calls + SumCalls(S \ {j})

\* get_many calls made for order id o, over all jobs that carry it.
CallsFor(o) == SumCalls(JobsOf(o))

\* C1: in every reachable state the table holds at most one row per order
\* id, whatever the interleaving of enqueue calls, workers, retries and
\* duplicate submissions.
C1_AtMostOneRecordPerOrderId ==
    \A o \in OrderIds : RecordCount(o) <= 1

\* C1 witness: a worker is about to commit the INSERT of an order id that a
\* concurrent duplicate has stored since this worker's select.
C1_Witness ==
    \E w \in Workers :
        /\ wpc[w] = "commit"
        /\ ~wexisting[w]
        /\ RecordCount(wjob[w].oid) = 1

\* C2: for every order id at most one commit of _persist_processed (insert
\* or update) succeeds over an execution.
C2_AtMostOneWritePerOrderId ==
    \A o \in OrderIds : writes[o] <= 1

\* C3: when the same order id is enqueued twice before the first job has
\* completed, get_many is called once in total for that order id and one
\* record is stored (no provider failure, no shutdown): never a second call,
\* and once both jobs are finished exactly one call and one row.
C3_DuplicateFetchedOnce ==
    \A o \in OrderIds :
        (/\ Cardinality(JobsOf(o)) = 2
         /\ \A j \in JobsOf(o) : jinfo[j].efail = 0 /\ ~jinfo[j].sd)
        => /\ CallsFor(o) <= 1
           /\ (\A j \in JobsOf(o) : Gone(j))
                 => CallsFor(o) = 1 /\ RecordCount(o) = 1

\* C4: wait_for_all() returns in a state where every order that was
\* enqueued once, before the call, on a pipeline that is not shutting down,
\* and whose get_many call did not fail, has exactly one row, written from
\* that job after exactly one get_many call.
C4_SubmittedOnceStoredOnce ==
    cret = "wait" =>
        \A j \in atWait :
            (/\ jinfo[j].efail = 0
             /\ ~jinfo[j].sd
             /\ JobsOf(jinfo[j].oid) = {j})
            => /\ RecordCount(jinfo[j].oid) = 1
               /\ \A i \in RowsOf(jinfo[j].oid) : store[i].content = j
               /\ jinfo[j].calls = 1

\* C4 witness: wait_for_all() returns after two orders with distinct ids,
\* each enqueued once, were processed without a failure.
C4_Witness ==
    /\ cret = "wait"
    /\ Cardinality(atWait) = 2
    /\ \A j \in atWait :
          /\ jinfo[j].efail = 0
          /\ ~jinfo[j].sd
          /\ JobsOf(jinfo[j].oid) = {j}
          /\ jinfo[j].fate = "stored"

\* C5: a job that is finished, was not caught by a shutdown, and whose
\* get_many failed k < max_retries times was not dropped: its order id has
\* exactly one row, and if a get_many call of the job succeeded, get_many was
\* called k+1 times for it.
C5_RetryThenStored ==
    \A j \in JobIds :
        (/\ Gone(j)
         /\ ~jinfo[j].sd
         /\ jinfo[j].efail < MaxRetries)
        => /\ RecordCount(jinfo[j].oid) = 1
           /\ jinfo[j].calls > jinfo[j].efail
                 => jinfo[j].calls = jinfo[j].efail + 1

\* C5 witness: a job whose get_many failed once (1 < max_retries) and then
\* succeeded is stored after two calls.
C5_Witness ==
    \E j \in JobIds :
        /\ jinfo[j].fate = "stored"
        /\ ~jinfo[j].sd
        /\ jinfo[j].efail = 1
        /\ jinfo[j].efail < MaxRetries
        /\ jinfo[j].calls = 2

\* C6 as claimed: a job dropped by _handle_failure, every get_many call of
\* which failed, had exactly max_retries + 1 calls, and its order id has no
\* row.
C6_ExhaustionAsClaimed ==
    \A j \in JobIds :
        (/\ jinfo[j].fate \in {"exhausted", "shutdown"}
         /\ jinfo[j].calls >= 1
         /\ jinfo[j].efail = jinfo[j].calls)
        => /\ jinfo[j].calls = MaxRetries + 1
           /\ RecordCount(jinfo[j].oid) = 0

\* C6 amended: a job every get_many call of which failed with no shutdown in
\* progress had exactly max_retries + 1 calls, is in neither the queue nor a
\* worker, and wrote no row; its order id has no row unless another job
\* carries the same order id.
C6_ExhaustionNoShutdown ==
    \A j \in JobIds :
        (/\ jinfo[j].fate = "exhausted"
         /\ jinfo[j].calls >= 1
         /\ jinfo[j].efail = jinfo[j].calls)
        => /\ jinfo[j].calls = MaxRetries + 1
           /\ j \notin QueuedJids \cup HeldJids
           /\ \A i \in RowsOf(jinfo[j].oid) :
                 store[i].created # j /\ store[i].content # j
           /\ JobsOf(jinfo[j].oid) = {j} => RecordCount(jinfo[j].oid) = 0

\* C6 witness: a job was dropped after max_retries + 1 failed calls.
C6_Witness ==
    \E j \in JobIds :
        /\ jinfo[j].fate = "exhausted"
        /\ jinfo[j].efail = MaxRetries + 1
        /\ jinfo[j].calls = MaxRetries + 1
        /\ RecordCount(jinfo[j].oid) = 0

\* C7: the step in which enqueue() returns: when its check found a row for
\* the order id, the queue, its counter, the table and the get_many call
\* counts are unchanged; otherwise exactly one job with attempt 0 is added at
\* the tail of the queue, and it has not been pulled when enqueue() returns.
C7_EnqueueFrame ==
    [][(ppc = "check" /\ ppc' = "idle") =>
        IF pexists
        THEN /\ queue' = queue
             /\ unfinished' = unfinished
             /\ store' = store
             /\ jinfo' = jinfo
        ELSE /\ queue' = Append(queue, [oid |-> porder, attempt |-> 0,
                                        jid |-> Len(jinfo) + 1])
             /\ unfinished' = unfinished + 1
             /\ store' = store
             /\ Len(jinfo') = Len(jinfo) + 1
             /\ \A j \in JobIds : jinfo'[j] = jinfo[j]
             /\ jinfo'[Len(jinfo')].pulls = 0
             /\ jinfo'[Len(jinfo')].fate = "live"]_vars

\* C7 witness: enqueue() is about to return for an order id whose row its
\* check found, while another job waits in the queue.
C7_Witness ==
    /\ ppc = "check"
    /\ pexists
    /\ RecordCount(porder) = 1
    /\ queue # <<>>

\* C8: when stop() returns, every job that was in the queue when stop() was
\* called has been pulled by a worker and its processing attempt has run to
\* its end; none of them is still queued and none was cut off by the cancel.
C8_StopDrainsQueuedJobs ==
    cret = "stop" =>
        \A j \in atStop :
            /\ jinfo[j].pulls >= 1
            /\ jinfo[j].fate \notin {"live", "cancelled"}
            /\ j \notin QueuedJids \cup HeldJids

\* C8 witness: stop() returns after it was called with two jobs queued.
C8_Witness ==
    /\ cret = "stop"
    /\ Cardinality(atStop) = 2

\* Workers that are in the middle of a job.
Busy == {w \in Workers : wpc[w] \in InFlight}

\* What C9 says of each of the N jobs: its order id is stored, or the job was
\* dropped after a failed attempt.
C9_JobSettled(j) ==
    \/ jinfo[j].fate = "stored"
    \/ jinfo[j].fate = "skipped" /\ RecordCount(jinfo[j].oid) = 1
    \/ jinfo[j].fate \in {"shutdown", "exhausted"}

\* C9 as claimed: stop() called on a started pipeline with N jobs queued and
\* none in flight returns with each of the N jobs settled, the queue empty,
\* no job in flight and no worker task alive.
C9_StopAsClaimed ==
    (cret = "stop" /\ stopIdle) =>
        /\ \A j \in atStop : C9_JobSettled(j)
        /\ queue = <<>>
        /\ Busy = {}
        /\ \A w \in Workers : ~Alive(w)

\* C9 amended: the same, except that the queue holds none of the N jobs: a
\* job in it was put by an enqueue() that ran while stop() was under way, and
\* has not been pulled.
C9_StopSettlesQueuedJobs ==
    (cret = "stop" /\ stopIdle) =>
        /\ \A j \in atStop : C9_JobSettled(j)
        /\ \A j \in QueuedJids :
              j \notin atStop /\ jinfo[j].sd /\ jinfo[j].pulls = 0
        /\ Busy = {}
        /\ \A w \in Workers : ~Alive(w)

\* C9 witness: stop() returns after a call with two jobs queued and none in
\* flight, one of them stored and one dropped after a failed attempt.
C9_Witness ==
    /\ cret = "stop"
    /\ stopIdle
    /\ Cardinality(atStop) = 2
    /\ \E j \in atStop : jinfo[j].fate = "stored"
    /\ \E j \in atStop : jinfo[j].fate = "shutdown"

\* C10: every call of stop() returns, whatever state the pipeline is in when
\* it is called, under the fairness of FairSpecF.
C10_StopReturns ==
    (cpc \in {"stop_join", "stop_wake", "stop_gather"}) ~> (cpc = "idle")

\* C11: a start() on a pipeline that has worker tasks leaves the worker tasks
\* and the shutdown flag as they are, and in every state the pipeline has
\* either no worker task or exactly the configured number, which is at
\* least 1.
C11_StartIdempotent ==
    /\ [](Concurrency >= 1 /\ Cardinality(WorkerTasks) \in {0, Concurrency})
    /\ [][(Start /\ WorkerTasks # {}) =>
             /\ wpc' = wpc
             /\ wjob' = wjob
             /\ shutdown' = shutdown]_vars

\* C11 witness: start() can be called on a pipeline that was stopped and
\* started again and whose workers are in the middle of jobs.
C11_Witness ==
    /\ cpc = "idle"
    /\ ~shutdown
    /\ Cardinality(WorkerTasks) = Concurrency
    /\ \E w \in Workers : wpc[w] \in InFlight
    /\ \E j \in JobIds : jinfo[j].sd

\* C12 as claimed: wait_for_all() returns only in a state where the queue is
\* empty and no worker is processing a job.
C12_WaitAsClaimed ==
    cret = "wait" => queue = <<>> /\ Busy = {}

\* C12 amended: when wait_for_all() returns, every job that was put before
\* the call has come to its end (stored, skipped, dropped, or cut off by an
\* earlier stop()): none of them is in the queue, in a worker, or waiting
\* for a retry.  A job in the queue or
\* in a worker at that moment was put by an enqueue() that ran during the
\* wait.
C12_WaitDrained ==
    cret = "wait" =>
        /\ \A j \in atWait :
              /\ Gone(j)
              /\ j \notin QueuedJids \cup HeldJids
        /\ \A j \in QueuedJids \cup HeldJids : j \notin atWait

\* C12 witness: wait_for_all() was suspended in join() and is woken after
\* the one job put before the call failed, was re-queued and was stored.
C12_Witness ==
    /\ cpc = "wait_wake"
    /\ Cardinality(atWait) = 1
    /\ \E j \in atWait :
          /\ jinfo[j].efail >= 1
          /\ jinfo[j].pulls >= 2
          /\ jinfo[j].fate = "stored"

\* C13: the queue is served in put order: a worker that pulls takes the job
\* at the head, and a put, whether by enqueue() or by the re-queue of a
\* failed job, adds at the tail behind every job queued at that moment; the
\* re-queued job is the failed one with attempt + 1.
C13_FifoOrder ==
    [][/\ \A w \in Workers :
             (wpc[w] = "idle" /\ wpc'[w] = "dedup") =>
                 /\ queue # <<>>
                 /\ wjob'[w] = Head(queue)
                 /\ queue' = Tail(queue)
       /\ \A w \in Workers :
             (/\ wpc[w] \in InFlight
              /\ wpc'[w] = "idle"
              /\ jinfo'[wjob[w].jid].fate = "live") =>
                 queue' = Append(queue, [oid |-> wjob[w].oid,
                                         attempt |-> wjob[w].attempt + 1,
                                         jid |-> wjob[w].jid])
       /\ queue' # queue =>
             \/ queue # <<>> /\ queue' = Tail(queue)
             \/ /\ Len(queue') = Len(queue) + 1
                /\ SubSeq(queue', 1, Len(queue)) = queue]_vars

\* C13 witness: a job enqueued later has been stored while a job enqueued
\* before it, whose attempt failed, waits in the queue for its retry.
C13_Witness ==
    \E a, b \in JobIds :
        /\ a < b
        /\ jinfo[b].fate = "stored"
        /\ jinfo[a].fate = "live"
        /\ jinfo[a].efail >= 1
        /\ \E i \in 1..Len(queue) : queue[i].jid = a /\ queue[i].attempt >= 1

\* C14: a step in which the attempt of a job fails in a worker, by a get_many
\* failure or a store failure, with no shutdown in progress, follows the
\* retry policy: the job is re-queued at the tail with attempt + 1 when its
\* attempt is below max_retries and dropped otherwise, the worker goes on to
\* its next job, and the enqueue() in progress is not touched.
C14_FailuresRetried ==
    [][\A w \in Workers :
          (/\ wpc[w] \in InFlight
           /\ wpc'[w] # wpc[w]
           /\ efails' # efails \/ sfails' # sfails
           /\ ~shutdown) =>
              /\ wpc'[w] = "idle"
              /\ ppc' = ppc
              /\ IF wjob[w].attempt < MaxRetries
                 THEN /\ queue' = Append(queue, [oid |-> wjob[w].oid,
                                                 attempt |-> wjob[w].attempt + 1,
                                                 jid |-> wjob[w].jid])
                      /\ jinfo'[wjob[w].jid].fate = "live"
                 ELSE /\ queue' = queue
                      /\ jinfo'[wjob[w].jid].fate = "exhausted"]_vars

\* C15: the table and the write counts change only in a step of a worker
\* that is committing a job in an attempt whose get_many call succeeded, and
\* only for the order id of that job; a step in which get_many fails ends the
\* attempt with nothing written and counts as one failure of the job, which
\* is re-queued with attempt + 1 or dropped.
C15_EnrichedAtomically ==
    [][/\ (store' # store \/ writes' # writes) =>
             \E w \in Workers :
                 /\ wpc[w] = "commit"
                 /\ jinfo[wjob[w].jid].calls = jinfo[wjob[w].jid].efail + 1
                 /\ \A o \in OrderIds \ {wjob[w].oid} : writes'[o] = writes[o]
                 /\ \A i \in 1..Len(store') :
                       \/ i <= Len(store) /\ store'[i] = store[i]
                       \/ /\ store'[i].order_id = wjob[w].oid
                          /\ store'[i].content = wjob[w].jid
       /\ \A w \in Workers :
             (wpc[w] = "fetch" /\ efails' # efails /\ wpc'[w] # wpc[w]) =>
                 /\ store' = store
                 /\ writes' = writes
                 /\ wpc'[w] = "idle"
                 /\ jinfo'[wjob[w].jid].efail = jinfo[wjob[w].jid].efail + 1
                 /\ \/ /\ jinfo'[wjob[w].jid].fate = "live"
                       /\ wjob[w].attempt < MaxRetries
                       /\ queue' = Append(queue,
                                          [wjob[w] EXCEPT !.attempt = @ + 1])
                    \/ /\ jinfo'[wjob[w].jid].fate \in {"exhausted", "shutdown"}
                       /\ queue' = queue]_vars

\* C15 witness: a job two attempts of which failed in get_many, leaving the
\* table without a row for it, wrote its row in the third.
C15_Witness ==
    \E j \in JobIds :
        /\ jinfo[j].efail = 2
        /\ jinfo[j].calls = 3
        /\ jinfo[j].fate = "stored"
        /\ \E i \in RowsOf(jinfo[j].oid) : store[i].created = j

\* The code ends in a digit, so it has trailing digits to take the product
\* id from.
EndsInDigit(sku) ==
    /\ sku # <<>>
    /\ sku[Len(sku)] \in {"0", "1", "2", "3", "4", "5", "6", "7", "8", "9"}

\* The distinct codes of the get_many call in progress.
InputCodes == {getmany.skus[i] : i \in 1..Len(getmany.skus)}

\* C16: get_many returns a mapping only when the fetch of every code of its
\* input succeeded, and the mapping then has every code; when get_many
\* raises, it hands over no mapping and its one error names a code of the
\* input whose fetch failed or that has no product id.
C16_FailsAsAWhole ==
    /\ getmany.pc = "returned" =>
          /\ \A c \in InputCodes : getmany.task[c] = "ok" /\ EndsInDigit(c)
          /\ getmany.result = InputCodes
    /\ getmany.pc = "raised" =>
          /\ getmany.result = {}
          /\ getmany.error \in InputCodes
          /\ getmany.task[getmany.error] = "fail" \/ ~EndsInDigit(getmany.error)
    /\ getmany.pc = "await" =>
          \A i \in 1..(getmany.idx - 1) : getmany.task[getmany.order[i]] = "ok"

\* C16 witness: get_many raised for a code whose fetch failed after the
\* fetch of another code had succeeded and been awaited.
C16_Witness ==
    /\ getmany.pc = "raised"
    /\ getmany.idx >= 2
    /\ getmany.task[getmany.error] = "fail"
    /\ \E c \in InputCodes : getmany.task[c] = "ok"

NonRetryable4xx(st) == st \in 400..499 /\ st # 429

\* C19: a request call never sends more than retries + 1 requests, and a 4xx
\* response other than 429 ends it with an error at once: it is the last
\* response of the call, no request and no backoff wait follows it, and when
\* it answers the first request the call has sent exactly one request and
\* waited for no backoff.
C19_BoundedRequests ==
    /\ request.sent <= request.retries + 1
    /\ \A i \in 1..Len(request.log) :
          NonRetryable4xx(request.log[i]) =>
              /\ i = Len(request.log)
              /\ request.pc = "raised"
              /\ request.sent = i
              /\ request.waits = i - 1

\* C19 witness: a call with retries = 2 raised after one request that was
\* answered 404.
C19_Witness ==
    /\ request.pc = "raised"
    /\ request.retries = 2
    /\ request.log = <<404>>
    /\ request.sent = 1
    /\ request.waits = 0

\* C20 as claimed: a 429 or any 5xx response received while attempts remain
\* is followed by a backoff and another request, so a call that raised on
\* such a response had sent retries + 1 requests.
C20_RetriedAsClaimed ==
    \A i \in 1..Len(request.log) :
        (request.log[i] = 429 \/ request.log[i] \in 500..599) =>
            /\ i <= request.retries =>
                  /\ request.waits >= i
                  /\ request.pc # "backoff" => request.sent >= i + 1
                  /\ i = Len(request.log) =>
                        request.pc \in {"backoff", "sending"}
            /\ (i = Len(request.log) /\ request.pc = "raised") =>
                  request.sent = request.retries + 1

\* C20 amended: the same for the statuses 429, 500, 502, 503 and 504; any
\* other error status fails the call at once.
C20_RetriedOnRetryStatuses ==
    \A i \in 1..Len(request.log) :
        IF request.log[i] \in {429, 500, 502, 503, 504}
        THEN /\ i <= request.retries =>
                   /\ request.waits >= i
                   /\ request.pc # "backoff" => request.sent >= i + 1
                   /\ i = Len(request.log) =>
                         request.pc \in {"backoff", "sending"}
             /\ (i = Len(request.log) /\ request.pc = "raised") =>
                   request.sent = request.retries + 1
        ELSE request.log[i] >= 400 =>
                   i = Len(request.log) /\ request.pc = "raised"

\* C20 witness: a call with retries = 2 was answered 429, 503 and 500, waited
\* twice, and raised after its third request.
C20_Witness ==
    /\ request.pc = "raised"
    /\ request.retries = 2
    /\ request.log = <<429, 503, 500>>
    /\ request.waits = 2
    /\ request.sent = 3

\* C21: a step that pops a payload takes the head of the Redis list and does
\* not put it back; when the payload is not JSON, or is an order without a
\* positive id or without items, enqueue is not called and the loop is at
\* its next poll (or has ended, stop() having been signalled); when it is a
\* valid order, enqueue is called with it, once.  No other step calls
\* enqueue or puts a popped payload on the list.
C21_PayloadHandledOnce ==
    [][IF consumer'.popped # consumer.popped
       THEN /\ consumer.list # <<>>
            /\ consumer'.popped = Append(consumer.popped, Head(consumer.list))
            /\ consumer'.list = Tail(consumer.list)
            /\ IF /\ Head(consumer.list).json
                  /\ Head(consumer.list).id > 0
                  /\ Head(consumer.list).items > 0
               THEN /\ consumer'.handed
                          = Append(consumer.handed, Head(consumer.list))
                    /\ consumer'.pc = "enqueue"
                    /\ consumer'.cur = Head(consumer.list).seq
               ELSE /\ consumer'.handed = consumer.handed
                    /\ consumer'.pc \in {"poll", "ended"}
       ELSE /\ consumer'.handed = consumer.handed
            /\ \/ consumer'.list = consumer.list
               \/ /\ Len(consumer'.list) = Len(consumer.list) + 1
                  /\ SubSeq(consumer'.list, 1, Len(consumer.list))
                        = consumer.list
                  /\ \A i \in 1..Len(consumer.popped) :
                        consumer.popped[i].seq
                            # consumer'.list[Len(consumer'.list)].seq]_vars

\* C21 witness: the consumer has discarded a payload and is handing the
\* order popped after it to enqueue.
C21_Witness ==
    /\ consumer.pc = "enqueue"
    /\ Len(consumer.popped) = 2
    /\ ~consumer.popped[1].json
    /\ consumer.handed = <<consumer.popped[2]>>

\* C22: a connection error of the blocking pop does not end the poll task:
\* the task sleeps, and after the sleep it polls again, or ends if stop()
\* has been signalled; and the sleep does come to its end.
C22_PopErrorsNeverEndLoop ==
    /\ [][consumer'.errors # consumer.errors =>
             /\ consumer'.pc = "backoff"
             /\ consumer'.running = consumer.running]_vars
    /\ [][(consumer.pc = "backoff" /\ consumer'.pc # "backoff") =>
             consumer'.pc = IF consumer.stop THEN "ended" ELSE "poll"]_vars
    /\ (consumer.pc = "backoff") ~> (consumer.pc \in {"poll", "ended"})

\* C22 witness: the loop polls again after its second connection error.
C22_Witness ==
    /\ consumer.errors = 2
    /\ consumer.pc = "poll"
    /\ ~consumer.stop

\* C23: stop() never ends otherwise than by returning, and returns only
\* when the poll task has ended; a stop() that waits for the task does
\* return; between its return and the next start() nothing is popped or
\* handed to enqueue; a start() while a task exists changes nothing, and at
\* most one poll task is alive.
C23_StopEndsPolling ==
    /\ [](consumer.sret # "raised")
    /\ [](consumer.sret = "returned" =>
             consumer.pc = "none" /\ consumer.running = 0 /\ ~consumer.task)
    /\ (consumer.spc = "await") ~> (consumer.sret = "returned")
    /\ [][(consumer.sret = "returned" /\ consumer'.sret = "returned") =>
             /\ consumer'.popped = consumer.popped
             /\ consumer'.handed = consumer.handed]_vars
    /\ [](consumer.running <= 1)
    /\ [][(consumer.task /\ consumer'.running # consumer.running) =>
             consumer'.running < consumer.running]_vars

\* r is a nearest whole number to n / 10.
NearestTenth(r, n) == 10 * r - n \in -5..5

\* C24: in every computed record, in cents: the discount is 10% of the
\* total to the nearest cent when the total is above 500.00 and 0 otherwise,
\* 500.00 included; final_total is total - discount; the discount is not
\* negative and final_total is not above total.
C24_DiscountRule ==
    pricing.pc = "done" =>
        /\ IF pricing.total > 50000
           THEN NearestTenth(pricing.discount, pricing.total)
           ELSE pricing.discount = 0
        /\ pricing.final = pricing.total - pricing.discount
        /\ 0 <= pricing.discount
        /\ pricing.final <= pricing.total

\* C24 witness: an order whose total is exactly 500.00 got no discount.
C24_Witness ==
    /\ pricing.pc = "done"
    /\ pricing.total = 50000
    /\ pricing.discount = 0
    /\ pricing.final = 50000

\* The order of the scenario: 3 at 10.00 with catalog price 120, 5 at 20.00
\* with catalog price 55.5.
Order42 ==
    <<[qty |-> 3, unit |-> 1000, api |-> 120000],
      [qty |-> 5, unit |-> 2000, api |-> 55500]>>

\* C25 as claimed: each line total is the catalog's price times the
\* quantity, to the nearest cent, when the catalog gave a price, and the
\* submitted unit price times the quantity otherwise; the total is the sum
\* of the line totals; the enriched items are the submitted ones in number
\* and order; and the scenario gives 360.00, 277.50, 637.50, 63.75, 573.75.
C25_LineTotalsAsClaimed ==
    pricing.pc = "done" =>
        /\ Len(pricing.enriched) = Len(pricing.items)
        /\ \A i \in 1..Len(pricing.items) :
              /\ pricing.enriched[i].qty = pricing.items[i].qty
              /\ pricing.enriched[i].unit = pricing.items[i].unit
              /\ IF pricing.items[i].api # NoPrice
                 THEN NearestTenth(pricing.enriched[i].line,
                                   pricing.items[i].api * pricing.items[i].qty)
                 ELSE pricing.enriched[i].line
                          = pricing.items[i].unit * pricing.items[i].qty
        /\ pricing.total = Subtotal(pricing.enriched)
        /\ pricing.items = Order42 =>
              /\ pricing.enriched[1].line = 36000
              /\ pricing.enriched[2].line = 27750
              /\ pricing.total = 63750
              /\ pricing.discount = 6375
              /\ pricing.final = 57375

\* C25 amended: the same, with the catalog's price rounded to the cent
\* before it is multiplied by the quantity.
C25_LineTotalsFromRoundedPrice ==
    pricing.pc = "done" =>
        /\ Len(pricing.enriched) = Len(pricing.items)
        /\ \A i \in 1..Len(pricing.items) :
              /\ pricing.enriched[i].qty = pricing.items[i].qty
              /\ pricing.enriched[i].unit = pricing.items[i].unit
              /\ IF pricing.items[i].api # NoPrice
                 THEN /\ NearestTenth(pricing.enriched[i].api,
                                      pricing.items[i].api)
                      /\ pricing.enriched[i].line
                            = pricing.enriched[i].api * pricing.items[i].qty
                 ELSE pricing.enriched[i].line
                          = pricing.items[i].unit * pricing.items[i].qty
        /\ pricing.total = Subtotal(pricing.enriched)
        /\ pricing.items = Order42 =>
              /\ pricing.enriched[1].line = 36000
              /\ pricing.enriched[2].line = 27750
              /\ pricing.total = 63750
              /\ pricing.discount = 6375
              /\ pricing.final = 57375

\* C25 witness: the order of the scenario has been priced.
C25_Witness ==
    /\ pricing.pc = "done"
    /\ pricing.items = Order42
    /\ pricing.final = 57375

\* C26: two processings that agree on order id, customer, submitted-at
\* instant and final total have the same hash, whatever their line items;
\* two that differ only in the final total have different hashes.
C26_HashOfFourValues ==
    LET a == hashing.prev
        b == hashing.last
    IN  (a # NoHash /\ b # NoHash) =>
          /\ (/\ a.order.id = b.order.id
              /\ a.order.customer = b.order.customer
              /\ a.order.instant = b.order.instant
              /\ a.final = b.final) => a.hash = b.hash
          /\ (a.order = b.order /\ a.final # b.final) => a.hash # b.hash

\* C27: the step in which the commit of a job's record succeeds: when the
\* order id has a row, that row gets the content of the job, its created-at
\* and order id stay, and every other row and the number of rows stay; when
\* it has none, exactly one row is added, for that order id and with that
\* content, behind the rows there were.
C27_UpsertFrame ==
    [][\A w \in Workers :
          (/\ wpc[w] = "commit"
           /\ wpc'[w] # "commit"
           /\ writes' # writes) =>
              LET o == wjob[w].oid
                  j == wjob[w].jid
              IN  IF RowsOf(o) # {}
                  THEN /\ Len(store') = Len(store)
                       /\ \A i \in 1..Len(store) :
                             IF store[i].order_id = o
                             THEN /\ store'[i].content = j
                                  /\ store'[i].created = store[i].created
                                  /\ store'[i].order_id = o
                             ELSE store'[i] = store[i]
                  ELSE /\ Len(store') = Len(store) + 1
                       /\ SubSeq(store', 1, Len(store)) = store
                       /\ store'[Len(store')].order_id = o
                       /\ store'[Len(store')].content = j]_vars

\* C27 witness: the row a job added has been overwritten by a later job of
\* the same order id, and is still the only row.
C27_Witness ==
    /\ Len(store) = 1
    /\ store[1].content # store[1].created
    /\ jinfo[store[1].created].fate = "stored"
    /\ jinfo[store[1].content].fate = "stored"

\* C28: the step in which an attempt fails in a worker, by get_many or by
\* the store, while the shutdown flag is set: the queue is as it was, and
\* the job ends as dropped at shutdown, in neither the queue nor a worker,
\* whatever its attempt counter.
C28_FailureInShutdownDrops ==
    [][\A w \in Workers :
          (/\ wpc[w] \in {"fetch", "select", "commit"}
           /\ wpc'[w] = "idle"
           /\ jinfo'[wjob[w].jid].fate # "stored"
           /\ shutdown) =>
              /\ queue' = queue
              /\ \A i \in 1..Len(queue') : queue'[i].jid # wjob[w].jid
              /\ \A v \in Workers : wjob'[v].jid # wjob[w].jid
              /\ jinfo'[wjob[w].jid].fate = "shutdown"]_vars

\* C28 witness: a job was dropped at shutdown when its first attempt failed.
C28_Witness ==
    \E j \in JobIds :
        /\ jinfo[j].fate = "shutdown"
        /\ jinfo[j].pulls = 1
        /\ MaxRetries >= 1

\* C29: the step in which a worker leaves the duplicate check of a job the
\* order id of which has a row, as it has when it had one at the pull: the
\* worker holds no job afterwards, get_many is not called for the job, the
\* table and the write counts are as they were, and so is the queue.
C29_DuplicateDiscarded ==
    [][\A w \in Workers :
          (/\ wpc[w] = "dedup"
           /\ wpc'[w] # "dedup"
           /\ RowsOf(wjob[w].oid) # {}) =>
              /\ wpc'[w] \in {"idle", "done"}
              /\ wjob'[w] = NoJob
              /\ jinfo'[wjob[w].jid].calls = jinfo[wjob[w].jid].calls
              /\ jinfo'[wjob[w].jid].fate \in {"skipped", "cancelled", "crashed"}
              /\ store' = store
              /\ writes' = writes
              /\ queue' = queue]_vars

\* C29 witness: a job pulled by a worker was skipped, with no get_many call,
\* because another job had written the row of its order id.
C29_Witness ==
    \E j \in JobIds :
        /\ jinfo[j].fate = "skipped"
        /\ jinfo[j].pulls = 1
        /\ jinfo[j].calls = 0
        /\ \E i \in RowsOf(jinfo[j].oid) : store[i].created # j

\* C30: a worker task ends only in a step taken with the shutdown flag set
\* and the queue empty, or with its cancellation pending; and while the
\* workers are started and no shutdown is requested, every one of them is
\* alive.
C30_WorkersEndOnlyAtShutdown ==
    /\ [][\A w \in Workers :
             (Alive(w) /\ wpc'[w] = "done") =>
                 \/ shutdown /\ queue = <<>>
                 \/ wcancel[w]]_vars
    /\ []((WorkerTasks # {} /\ ~shutdown) =>
              Cardinality({w \in Workers : Alive(w)}) = Concurrency)

\* C31: stop() cancels idle workers only: a worker whose cancellation is
\* pending holds no job, and the step that cancels the workers finds every
\* live worker idle, whatever enqueue() calls went before it.
C31_StopCancelsIdleOnly ==
    /\ [](\A w \in Workers : wcancel[w] => (wpc[w] = "idle" /\ wjob[w] = NoJob))
    /\ [][\A w \in Workers :
             (~wcancel[w] /\ wcancel'[w]) => wpc[w] = "idle"]_vars

\* C32: every job in the queue or held by a worker has an attempt counter
\* from 0 to max_retries; a job comes into the queue either new, with
\* attempt 0, or from the worker that held it, with its counter raised by 1,
\* and a worker takes a job as it is at the head; a job that was stored or
\* that failed at attempt max_retries is in neither the queue nor a worker.
C32_AttemptBounded ==
    /\ [](/\ \A i \in 1..Len(queue) : queue[i].attempt \in 0..MaxRetries
          /\ \A w \in Workers :
                wpc[w] \in InFlight => wjob[w].attempt \in 0..MaxRetries
          /\ \A j \in JobIds :
                jinfo[j].fate \in {"stored", "exhausted"}
                    => j \notin QueuedJids \cup HeldJids)
    /\ [][/\ \A i \in 1..Len(queue') :
                \/ \E k \in 1..Len(queue) : queue[k] = queue'[i]
                \/ /\ queue'[i].jid = Len(jinfo) + 1
                   /\ queue'[i].attempt = 0
                \/ \E w \in Workers :
                      /\ wpc[w] \in InFlight
                      /\ queue'[i].jid = wjob[w].jid
                      /\ queue'[i].attempt = wjob[w].attempt + 1
          /\ \A w \in Workers :
                (wjob'[w] # wjob[w] /\ wjob'[w] # NoJob) =>
                    (queue # <<>> /\ wjob'[w] = Head(queue))
          /\ \A w \in Workers :
                (/\ wpc[w] \in InFlight
                 /\ wpc'[w] = "idle"
                 /\ wjob[w].attempt = MaxRetries) =>
                    /\ \A i \in 1..Len(queue') : queue'[i].jid # wjob[w].jid
                    /\ \A v \in Workers : wjob'[v].jid # wjob[w].jid]_vars

\* C32 witness: a job that was pulled max_retries + 1 times, the last time
\* at attempt max_retries, and failed each time is gone, while another job
\* is queued or held.
C32_Witness ==
    \E j \in JobIds :
        /\ jinfo[j].fate = "exhausted"
        /\ jinfo[j].pulls = MaxRetries + 1
        /\ j \notin QueuedJids \cup HeldJids
        /\ QueuedJids \cup HeldJids # {}

StopInProgress == cpc \in {"stop_join", "stop_wake", "stop_gather"}

\* C33: while there is no worker task the queue loses no job; a start()
\* that finds no worker task clears the shutdown flag, keeps the queue and
\* leaves every worker idle, and the flag stays clear while the workers run
\* and no stop() is in progress; a job that is queued while the workers run
\* with no stop() in progress is processed to its end; and an attempt that
\* fails with the flag clear and attempts left is re-queued with attempt + 1.
C33_RestartResumes ==
    /\ [][WorkerTasks = {} =>
             /\ Len(queue') >= Len(queue)
             /\ SubSeq(queue', 1, Len(queue)) = queue]_vars
    /\ [][(WorkerTasks = {} /\ WorkerTasks' # {}) =>
             /\ ~shutdown'
             /\ queue' = queue
             /\ unfinished' = unfinished
             /\ \A w \in Workers : wpc'[w] = "idle" /\ ~wcancel'[w]]_vars
    /\ []((WorkerTasks # {} /\ ~StopInProgress) => ~shutdown)
    /\ \A j \in 1..MaxJobs :
          (/\ j \in QueuedJids
           /\ WorkerTasks # {}
           /\ ~StopInProgress)
          ~> (/\ j \in JobIds
              /\ jinfo[j].pulls >= 1
              /\ jinfo[j].fate \in {"stored", "skipped", "exhausted", "shutdown"})
    /\ [][\A w \in Workers :
             (/\ wpc[w] \in {"fetch", "select", "commit"}
              /\ wpc'[w] = "idle"
              /\ jinfo'[wjob[w].jid].fate # "stored"
              /\ ~shutdown
              /\ wjob[w].attempt < MaxRetries) =>
                 /\ queue' = Append(queue, [wjob[w] EXCEPT !.attempt = @ + 1])
                 /\ jinfo'[wjob[w].jid].fate = "live"]_vars

\* C33 witness: a job enqueued after a stop(), with the flag set and no
\* worker task, was pulled after the restart, failed, and waits in the queue
\* for its retry with the flag clear.
C33_Witness ==
    \E j \in JobIds :
        /\ jinfo[j].sd
        /\ jinfo[j].pulls >= 1
        /\ jinfo[j].efail >= 1
        /\ ~shutdown
        /\ WorkerTasks # {}
        /\ \E i \in 1..Len(queue) : queue[i].jid = j /\ queue[i].attempt >= 1

\* C34: the poll task ends only in a step taken after stop() was signalled;
\* a step in which enqueue() raises leaves the task polling; and so, while
\* start() has made a task and stop() has not been signalled, the task is
\* alive to consume what is pushed.
C34_LoopEndsOnlyOnStop ==
    /\ [][consumer'.running < consumer.running => consumer.stop]_vars
    /\ [][consumer'.efail # consumer.efail =>
             /\ consumer'.running = consumer.running
             /\ consumer'.pc \in {"poll", "ended"}]_vars
    /\ []((consumer.task /\ ~consumer.stop) => consumer.running = 1)

====
